---- MODULE Spec2Model ----
(***************************************************************************)
(* GraymapImage (src/GraymapImage.h): a reader of Netpbm P1/P2/P4/P5 files *)
(* into an 8-bit buffer.  A file is a sequence of bytes (0..255); the      *)
(* stringstream the loader decodes from is a record [buf, pos, good]: the  *)
(* bytes, the 1-based read position, and whether no eofbit/failbit is set. *)
(***************************************************************************)
EXTENDS Integers, Sequences, FiniteSets, TLC

VARIABLES _data, _width, _height, _max_value, heap, file, ret, src, loads,
          query

vars ==
    <<_data, _width, _height, _max_value, heap, file, ret, src, loads, query>>

(* ------------------------------ bounds -------------------------------- *)

\* Longest pixel section (bytes after the header) of an enumerated file.
MaxRaster == 2
\* Number of LoadImage calls made on the one GraymapImage instance.
MaxLoads == 2
\* Largest coordinate handed to GetPixel.
MaxCoord == 2

(* ----------------------- machine integer widths ----------------------- *)

\* unsigned int _width, _height: 32 bits, held as two halves of 16 bits
\* (TLC's integers end at 2^31 - 1).
Half == 65536
UIntBits == 32
UShortBits == 16
\* unsigned char elements of _data: arithmetic modulo 2^8.
ByteMod == 256
\* The depth limit of LoadImage ("We don't support 16-bit image data").
MaxDepth == 255
\* The scale factor of the single bit formats.
Scale == 255
\* Pixels per byte of the packed format P4.
BitsPerByte == 8
\* The constructor's _max_value.
DefaultMax == 255

(* ------------------------------ characters ---------------------------- *)

NL == 10
Hash == 35
EOF == -1

\* isspace() in the "C" locale.
IsSpace(c) == c \in {9, 10, 11, 12, 13, 32}

IsDigit(c) == c \in 48..57

(* ------------------------ unsigned int arithmetic --------------------- *)

Lo(a) == a % Half
Hi(a) == a \div Half

\* Lo(a) * Lo(b) in base 2^16, without a product above 2^31.
LoLo(a, b) ==
    LET x == (Lo(a) % 256) * Lo(b)
        y == (Lo(a) \div 256) * Lo(b)
        t == x + 256 * (y % 256)
    IN [lo |-> t % Half, carry |-> (t \div Half) + (y \div 256)]

Mid(a, b) ==
    LoLo(a, b).carry + ((Hi(a) * Lo(b)) % Half) + ((Lo(a) * Hi(b)) % Half)

\* a * b in unsigned int (modulo 2^32) as its two halves, for a, b below
\* 2^31.
Prod(a, b) == [hi |-> Mid(a, b) % Half, lo |-> LoLo(a, b).lo]

\* p + x in unsigned int (modulo 2^32), p in halves and x below 2^31.
Sum(p, x) ==
    LET l == p.lo + Lo(x)
    IN [hi |-> (p.hi + Hi(x) + (l \div Half)) % Half, lo |-> l % Half]

\* Whether the unsigned int p is below the length n of a buffer.
Below(p, n) == p.hi < Half \div 2 /\ p.hi * Half + p.lo < n

\* a * b in unsigned int, as an integer (products below 2^31: lengths of
\* buffers that can be enumerated).
MulUInt(a, b) == Prod(a, b).hi * Half + Prod(a, b).lo

\* The high 32 bits of a * b: how often the product wraps around.
Wraps(a, b) ==
    Hi(a) * Hi(b) + ((Hi(a) * Lo(b)) \div Half) + ((Lo(a) * Hi(b)) \div Half)
        + (Mid(a, b) \div Half)

\* Whether a * b wraps around in unsigned int.
Overflows(a, b) == Wraps(a, b) > 0

\* a + b in unsigned int, for a + b below 2^31.
AddUInt(a, b) == a + b

\* (a + b) mod w for a, b below w, without a sum above w.
AddMod(a, b, w) == IF a >= w - b THEN a - (w - b) ELSE a + b

\* 2^32 mod w, for 0 < w < 2^31.
WrapMod(w) ==
    LET a == ((2147483647 % w) + 1) % w IN AddMod(a, a, w)

\* Whether v is above the largest value of an unsigned type of that many
\* bits (16 or 32).
Exceeds(v, bits) == Hi(v) >= 2 ^ (bits - 16)

(* ----------------------------- the stream ----------------------------- *)

\* basic_istream::sentry with skipws: the position of the next
\* non-whitespace byte (Len(buf)+1 when there is none).
RECURSIVE SkipWs(_, _)
SkipWs(buf, p) ==
    IF p <= Len(buf) /\ IsSpace(buf[p]) THEN SkipWs(buf, p + 1) ELSE p

\* The position after the run of decimal digits starting at p.
RECURSIVE DigitsEnd(_, _)
DigitsEnd(buf, p) ==
    IF p <= Len(buf) /\ IsDigit(buf[p]) THEN DigitsEnd(buf, p + 1) ELSE p

\* The value of the decimal digits buf[p..e-1]; for an unsigned short,
\* 2^16 stands for every value above 65535.
RECURSIVE DigitsValue(_, _, _, _)
DigitsValue(buf, p, e, bits) ==
    IF e <= p THEN 0
    ELSE LET v == DigitsValue(buf, p, e - 1, bits)
         IN IF bits = UShortBits /\ v >= Half \div 10 + 1 THEN Half
            ELSE v * 10 + (buf[e - 1] - 48)

Failed(st, p) == [buf |-> st.buf, pos |-> p, good |-> FALSE]

\* stream >> v for an unsigned integer type of that many bits (num_get,
\* C++11): a stream that is not good, or that holds only whitespace, leaves
\* v alone; no digit stores 0; a magnitude above the largest value stores
\* the largest value; both set failbit.  A '-' negates modulo 2^bits.
\* Digits that run to the end of the buffer set eofbit.  (A width or height
\* beyond 2^31 - 1, or negative, is beyond the integers held here.)
ExtractUnsigned(st, old, bits) ==
    IF ~st.good THEN [val |-> old, st |-> st]
    ELSE LET p == SkipWs(st.buf, st.pos) IN
      IF p > Len(st.buf) THEN [val |-> old, st |-> Failed(st, p)]
      ELSE LET neg == st.buf[p] = 45
               q == IF st.buf[p] \in {43, 45} THEN p + 1 ELSE p
               e == DigitsEnd(st.buf, q)
               v == DigitsValue(st.buf, q, e, bits)
           IN IF e = q THEN [val |-> 0, st |-> Failed(st, q)]
              ELSE IF Exceeds(v, bits)
                   THEN [val |-> 2 ^ bits - 1, st |-> Failed(st, e)]
              ELSE [val |-> IF neg /\ v > 0 THEN 2 ^ bits - v ELSE v,
                    st |-> [buf |-> st.buf, pos |-> e,
                            good |-> e <= Len(st.buf)]]

\* stream >> c for an unsigned char: skips whitespace and stores the code
\* of ONE character (not a decimal number); leaves c alone when it fails.
ExtractChar(st, old) ==
    IF ~st.good THEN [val |-> old, st |-> st, ok |-> FALSE]
    ELSE LET p == SkipWs(st.buf, st.pos) IN
      IF p > Len(st.buf)
      THEN [val |-> old, st |-> Failed(st, p), ok |-> FALSE]
      ELSE [val |-> st.buf[p],
            st |-> [buf |-> st.buf, pos |-> p + 1, good |-> TRUE],
            ok |-> TRUE]

\* stream.peek(): EOF on a stream that is not good or is exhausted.
Peek(st) ==
    IF st.good /\ st.pos <= Len(st.buf) THEN st.buf[st.pos] ELSE EOF

\* stream.read(&c, 1): one byte, verbatim; leaves c alone when it fails.
ReadByte(st, old) ==
    IF st.good /\ st.pos <= Len(st.buf)
    THEN [val |-> st.buf[st.pos],
          st |-> [buf |-> st.buf, pos |-> st.pos + 1, good |-> TRUE],
          ok |-> TRUE]
    ELSE [val |-> old, st |-> Failed(st, st.pos), ok |-> FALSE]

\* while (isspace(stream.peek())) stream.read(&dummy, 1);
RECURSIVE SkipSpaces(_)
SkipSpaces(st) ==
    IF IsSpace(Peek(st)) THEN SkipSpaces(ReadByte(st, 0).st) ELSE st

(* ------------------------- the header of a file ----------------------- *)

P1 == <<80, 49>>
P2 == <<80, 50>>
P4 == <<80, 52>>
P5 == <<80, 53>>

\* The position of the first '\n' at or after p (Len(f)+1 when none).
RECURSIVE LineEnd(_, _)
LineEnd(f, p) ==
    IF p <= Len(f) /\ f[p] # NL THEN LineEnd(f, p + 1) ELSE p

Min(a, b) == IF a < b THEN a ELSE b

\* getline(infile, formatBuffer): the bytes before the first '\n'.
FormatBuffer(f) == SubSeq(f, 1, LineEnd(f, 1) - 1)

\* The four compare() calls of LoadImage.
IsMagic(fmt) == ~(fmt # P1 /\ fmt # P2 /\ fmt # P4 /\ fmt # P5)

\* What "stream << infile.rdbuf()" copies: the file after the format line
\* and after one comment line, when the next byte is '#'.
Rest(f) ==
    LET p1 == Min(LineEnd(f, 1) + 1, Len(f) + 1)
        p2 == IF p1 <= Len(f) /\ f[p1] = Hash
              THEN Min(LineEnd(f, p1) + 1, Len(f) + 1)
              ELSE p1
    IN SubSeq(f, p2, Len(f))

\* The stringstream after "stream << infile.rdbuf()": inserting no
\* character sets failbit.
Stream(f) == [buf |-> Rest(f), pos |-> 1, good |-> Rest(f) # <<>>]

\* The condition guarding "stream >> _max_value" (true of every format).
ReadsMaxValue(fmt) == fmt # P2 \/ fmt # P5

\* vector::resize(n): keeps the first n elements, appends zeros.
Resize(data, n) ==
    [i \in 1..n |-> IF i <= Len(data) THEN data[i] ELSE 0]

(* ------------------------------ the decoders -------------------------- *)

\* Where a buffer entry's value comes from in the latest decode: the number
\* n of the extraction or read (counted from 0 in the decode loop), the bit
\* k of that byte (P4; -1 otherwise), and whether the read delivered a byte.
NoSrc == [n |-> -1, k |-> -1, ok |-> FALSE]

\* i + j * _width in unsigned int.
Index(i, j, w) == AddUInt(i, MulUInt(j, w))

\* The state of a decode loop: the stream, the buffer, where its entries
\* come from, the number of reads made, and whether a write went outside
\* the buffer.
Put(acc, idx, v, k, r) ==
    [st |-> r.st,
     data |-> [acc.data EXCEPT ![idx + 1] = v],
     src |-> [acc.src EXCEPT ![idx + 1] = [n |-> acc.n, k |-> k, ok |-> r.ok]],
     n |-> acc.n,
     out |-> acc.out]

\* A value stored through _data[idx] with idx not below size(): the vector
\* does not hold it.
Outside(acc, r) == [acc EXCEPT !.st = r.st, !.out = TRUE]

Step(acc) == [acc EXCEPT !.n = acc.n + 1]

\* P1: stream >> _data[..]; _data[..] *= 255 (in unsigned char).
RECURSIVE LoopP1(_, _, _, _, _)
LoopP1(j, i, w, h, acc) ==
    IF j >= h \/ w = 0 THEN acc
    ELSE IF i >= w THEN LoopP1(j + 1, 0, w, h, acc)
    ELSE LET idx == Index(i, j, w)
             r == ExtractChar(acc.st, acc.data[idx + 1])
         IN LoopP1(j, i + 1, w, h,
                   Step(Put(acc, idx, (r.val * Scale) % ByteMod, -1, r)))

\* P2: stream >> _data[..].  An extraction from a stream that is not good
\* stores nothing and leaves the stream as it is, so the iterations that
\* follow the first failed one change nothing and the loop is cut there
\* (width * height may be 2^32 iterations and more).
RECURSIVE LoopP2(_, _, _, _, _)
LoopP2(j, i, w, h, acc) ==
    IF j >= h \/ w = 0 \/ ~acc.st.good THEN acc
    ELSE IF i >= w THEN LoopP2(j + 1, 0, w, h, acc)
    ELSE LET idx == Index(i, j, w)
             r == ExtractChar(acc.st, 0)
         IN LoopP2(j, i + 1, w, h,
                   Step(IF ~r.ok THEN [acc EXCEPT !.st = r.st]
                        ELSE IF idx >= Len(acc.data) THEN Outside(acc, r)
                        ELSE Put(acc, idx, r.val, -1, r)))

\* ((temp & (0x1 << shift)) >> shift) with shift = 7 - k.
Bit(temp, shift) == (temp \div (2 ^ shift)) % 2

\* Low bit first.
ShiftLowFirst(k) == k

Shift(k) == 7 - k

\* P4, the loop over k: the 8 bits of one byte, stopped by the bound check.
RECURSIVE BitsP4(_, _, _, _, _, _)
BitsP4(k, i, j, w, r, acc) ==
    IF k >= BitsPerByte THEN acc
    ELSE LET index == Index(i + k, j, w) IN
      IF index >= Len(acc.data) THEN acc
      ELSE BitsP4(k + 1, i, j, w, r,
                  Put(acc, index, Bit(r.val, Shift(k)) * Scale, Shift(k),
                      [st |-> acc.st, ok |-> r.ok]))

\* P4, the loops over j and i (i += 8): one stream.read per 8 columns of a
\* row, into temp = 0.  A byte whose first index is not below size()
\* writes nothing, and neither does any byte after it until the index has
\* wrapped around 2^32: the loop is cut there (WrapP4 has the rest).
RECURSIVE LoopP4(_, _, _, _, _)
LoopP4(j, i, w, h, acc) ==
    IF j >= h \/ w = 0 THEN acc
    ELSE IF i >= w THEN LoopP4(j + 1, 0, w, h, acc)
    ELSE IF Index(i, j, w) >= Len(acc.data) THEN acc
    ELSE LET r == ReadByte(acc.st, 0)
         IN LoopP4(j, i + BitsPerByte, w, h,
                   Step(BitsP4(0, i, j, w, r, [acc EXCEPT !.st = r.st])))

\* Whether one of the bytes that the P4 loop reads after the index has
\* wrapped around writes entry x (from 0) of the buffer.  The byte read at
\* (j, i) writes the indices from (j * w + i) mod 2^32 on, up to 8 of them
\* and up to the first that is not below size(); so entry x is written in
\* wrap c when one of the positions c * 2^32 + y, y in max(0, x-7)..x, is
\* the first of a byte: (c * 2^32 + y) mod w is a multiple of 8.  Two such
\* positions are never more than 8 apart, so x >= 7 is written in every
\* wrap.  rc is (c * 2^32) mod w, r1 is 2^32 mod w.
RECURSIVE WrittenInWrap(_, _, _, _, _, _)
WrittenInWrap(x, c, rc, r1, w, wraps) ==
    IF x >= BitsPerByte - 1 THEN TRUE
    ELSE IF c > wraps \/ (c > 1 /\ rc = r1) THEN FALSE
    ELSE IF \E y \in 0..x : AddMod(rc, y % w, w) % BitsPerByte = 0 THEN TRUE
    ELSE WrittenInWrap(x, c + 1, AddMod(rc, r1, w), r1, w, wraps)

\* P4 when _width * _height wraps around: the indices i + k + j * _width
\* pass the buffer once before the first wrap (LoopP4) and once more after
\* each wrap.  The bytes read after a wrap are the 2^29-th and later, which
\* no file here has: temp stays 0 and the entries they write end as 0.
WrapP4(w, h, acc) ==
    LET first == LoopP4(0, 0, w, h, acc)
        late == {x \in 0..(Len(acc.data) - 1) :
                    WrittenInWrap(x, 1, WrapMod(w), WrapMod(w), w, Wraps(w, h))}
    IN [first EXCEPT
          !.data = [n \in 1..Len(acc.data) |->
                      IF n - 1 \in late THEN 0 ELSE first.data[n]],
          !.src = [n \in 1..Len(acc.data) |->
                      IF n - 1 \in late THEN NoSrc ELSE first.src[n]]]

\* P5: stream.read(&_data[..], 1).  A read from a stream that is not good
\* stores nothing, so the loop is cut after the first failed read, as in
\* LoopP2.
RECURSIVE LoopP5(_, _, _, _, _)
LoopP5(j, i, w, h, acc) ==
    IF j >= h \/ w = 0 \/ ~acc.st.good THEN acc
    ELSE IF i >= w THEN LoopP5(j + 1, 0, w, h, acc)
    ELSE LET idx == Index(i, j, w)
             r == ReadByte(acc.st, 0)
         IN LoopP5(j, i + 1, w, h,
                   Step(IF ~r.ok THEN [acc EXCEPT !.st = r.st]
                        ELSE IF idx >= Len(acc.data) THEN Outside(acc, r)
                        ELSE Put(acc, idx, r.val, -1, r)))

\* The pixel section: lines 121-175.  P1 multiplies _data[..] at every
\* index the loop forms, read or not: when _width * _height wraps around,
\* these are all 2^32 indices, inside the buffer and outside.
Decode(fmt, w, h, st, data) ==
    LET acc == [st |-> st, data |-> data,
                src |-> [i \in 1..Len(data) |-> NoSrc], n |-> 0,
                out |-> FALSE]
        skipped == [acc EXCEPT !.st = SkipSpaces(st)]
        res == IF fmt = P1
               THEN IF Overflows(w, h) THEN [acc EXCEPT !.out = TRUE]
                    ELSE LoopP1(0, 0, w, h, acc)
               ELSE IF fmt = P2 THEN LoopP2(0, 0, w, h, acc)
               ELSE IF fmt = P4
               THEN IF Overflows(w, h) THEN WrapP4(w, h, skipped)
                    ELSE LoopP4(0, 0, w, h, skipped)
               ELSE LoopP5(0, 0, w, h, skipped)
    IN [data |-> res.data, src |-> res.src, crash |-> res.out]

\* The header: width, height and max-value as lines 107-113 extract them
\* from the stream, given the fields' values before the call.
Header(f, w, h, m) ==
    LET rw == ExtractUnsigned(Stream(f), w, UIntBits)
        rh == ExtractUnsigned(rw.st, h, UIntBits)
        rm == IF ReadsMaxValue(FormatBuffer(f))
              THEN ExtractUnsigned(rh.st, m, UShortBits)
              ELSE [val |-> m, st |-> rh.st]
    IN [w |-> rw.val, h |-> rh.val, m |-> rm.val, st |-> rm.st]

\* The outcome of LoadImage(f) on an image holding (data, w, h, m).
Load(f, data, w, h, m) ==
    LET fmt == FormatBuffer(f)
        hd == Header(f, w, h, m)
        resized == Resize(data, MulUInt(hd.w, hd.h))
        d == Decode(fmt, hd.w, hd.h, hd.st, resized)
    IN IF ~IsMagic(fmt)
       THEN [ret |-> "false", data |-> data, w |-> w, h |-> h, m |-> m,
             src |-> <<>>]
       ELSE IF hd.m > MaxDepth
       THEN [ret |-> "false", data |-> resized, w |-> hd.w, h |-> hd.h,
             m |-> hd.m, src |-> <<>>]
       ELSE [ret |-> IF d.crash THEN "crash" ELSE "true", data |-> d.data,
             w |-> hd.w, h |-> hd.h, m |-> hd.m, src |-> d.src]

\* An outcome of a call: what Load computed, how the call ended, and the
\* state it leaves the storage of _data in: "none" while the vector has
\* never held an element, "intact", or "overwritten" behind the vector's
\* end.
With(o, r, hp) ==
    [ret |-> r, data |-> o.data, w |-> o.w, h |-> o.h, m |-> o.m,
     src |-> o.src, heap |-> hp]

\* _data.resize(n) with n > 0 gives the vector storage, which it keeps.
Storage(o, hp) == IF hp = "none" /\ Len(o.data) > 0 THEN "intact" ELSE hp

\* _data[..] outside the vector is undefined behaviour.  P1 touches 2^32
\* consecutive bytes and the process crashes.  P2 and P5 write the few
\* bytes the stream delivers: through the null pointer of a vector without
\* storage the process crashes; otherwise it crashes in the call (the
\* destructors of the call's streams meet the overwritten heap), or the
\* call returns true with the vector holding what was stored inside it and
\* the heap behind it overwritten.  On an overwritten heap every later call
\* allocates (the ifstream, the strings, the stringstream, the resize) and
\* may abort in malloc or free, whatever the file; or it may run as on an
\* intact heap.
Outcomes(f, o, hp) ==
    (IF o.ret # "crash" THEN {With(o, o.ret, Storage(o, hp))}
     ELSE IF FormatBuffer(f) = P1 \/ Storage(o, hp) = "none"
     THEN {With(o, "crash", hp)}
     ELSE {With(o, "crash", hp), With(o, "true", "overwritten")})
    \cup (IF hp = "overwritten" THEN {With(o, "crash", hp)} ELSE {})

\* IsInitialized().
IsInitialized == _width # 0 /\ _height # 0 /\ Len(_data) > 0

\* GetPixel(x, y): _data.at(y * _width + x), the index in unsigned int;
\* at() throws std::out_of_range when the index is not below size().
At(x, y) ==
    LET idx == Sum(Prod(y, _width), x)
    IN IF Below(idx, Len(_data))
       THEN [thrown |-> FALSE, val |-> _data[idx.hi * Half + idx.lo + 1]]
       ELSE [thrown |-> TRUE, val |-> 0]

(* ----------------------------- the inputs ------------------------------ *)

\* Decimal digits of n.
RECURSIVE Dec(_)
Dec(n) == IF n < 10 THEN <<48 + n>> ELSE Dec(n \div 10) \o <<48 + (n % 10)>>

\* Bytes of a pixel section: of the text formats a blank and the digit
\* '1'; of the binary formats a blank (0x20), 0xB0 and '1' (0x31).
TextBytes == {32, 49}
BinaryBytes == {32, 49, 176}
BytesOf(fmt) == IF fmt \in {P1, P2} THEN TextBytes ELSE BinaryBytes

RECURSIVE SeqsUpTo(_, _)
SeqsUpTo(S, n) ==
    IF n = 0 THEN {<<>>}
    ELSE LET shorter == SeqsUpTo(S, n - 1)
         IN shorter \cup {Append(s, b) : s \in {t \in shorter : Len(t) = n - 1},
                                         b \in S}

Rasters(fmt) == SeqsUpTo(BytesOf(fmt), MaxRaster)

\* Width and height of the enumerated headers, by format.
DimsOf(fmt) ==
    IF fmt = P4 THEN {<<8, 1>>, <<3, 2>>}
    ELSE IF fmt = P1 THEN {<<1, 1>>, <<2, 1>>}
    ELSE {<<2, 1>>, <<2, 2>>}

\* The max-value token: "255" in the gray formats; absent, or "1", in the
\* bit formats.
MaxTokensOf(fmt) ==
    IF fmt \in {P1, P4} THEN {<<>>, <<49>>} ELSE {<<50, 53, 53>>}

\* magic '\n' width ' ' height ['\n' maxval] '\n' raster
MkFile(fmt, d, mt, r) ==
    fmt \o <<NL>> \o Dec(d[1]) \o <<32>> \o Dec(d[2])
        \o (IF mt = <<>> THEN <<>> ELSE <<NL>> \o mt) \o <<NL>> \o r

Magics == {P1, P2, P4, P5}

WellFormed ==
    UNION {{MkFile(fmt, d, mt, r) : d \in DimsOf(fmt), mt \in MaxTokensOf(fmt),
                                    r \in Rasters(fmt)} : fmt \in Magics}

\* A max-value of 300.
DeepFiles ==
    {MkFile(fmt, <<2, 1>>, <<51, 48, 48>>, <<49>>) : fmt \in {P2, P5}}

\* 65536 x 65536: the product overflows unsigned int to 0.
HugeFiles ==
    {MkFile(fmt, <<65536, 65536>>, <<49>>, r) : fmt \in Magics,
                                                r \in {<<>>, <<49>>}}

\* Products that wrap around to a buffer that is not empty:
\* 4 x 1073741825 = 2^32 + 4, 16 x 268435457 = 2^32 + 16 and
\* 3 x 1431655766 = 2^32 + 2.
WrappedFiles ==
    {MkFile(P5, <<4, 1073741825>>, <<50, 53, 53>>, r) :
        r \in {<<176, 49, 176, 49>>, <<176, 49>>}}
    \cup {MkFile(P2, <<4, 1073741825>>, <<50, 53, 53>>, <<49, 49, 49, 49>>),
          MkFile(P1, <<4, 1073741825>>, <<>>, <<49, 32, 49>>),
          MkFile(P4, <<16, 268435457>>, <<49>>, <<176, 176>>),
          MkFile(P4, <<3, 1431655766>>, <<49>>, <<176>>)}

\* 32 bytes for a buffer of 4 (4 x 1073741825 = 2^32 + 4): 28 of them are
\* stored behind the vector's end.
LongP5File ==
    MkFile(P5, <<4, 1073741825>>, <<50, 53, 53>>, [i \in 1..32 |-> 65])

\* Wider packed rasters: 9 x 2 (two bytes per row, the second holding one
\* pixel), complete and cut short, and 16 x 1 with and without a max-value.
WideP4Files ==
    {MkFile(P4, <<9, 2>>, <<49>>, r) :
        r \in {<<176, 176, 49, 176>>, <<49, 176, 176, 49>>, <<176, 49>>}}
    \cup {MkFile(P4, <<16, 1>>, <<49>>, <<49, 176>>),
          MkFile(P4, <<16, 1>>, <<>>, <<176, 49>>)}

\* "P2\n2 2\n255\n0 128 255 64\n"
ExampleP2 ==
    <<80, 50, 10, 50, 32, 50, 10, 50, 53, 53, 10,
      48, 32, 49, 50, 56, 32, 50, 53, 53, 32, 54, 52, 10>>

\* Files whose first line is no magic token: "XX", "p5", "P5 " and "P3"
\* before a header and raster that would otherwise load, and the empty file.
BadMagics == {<<88, 88>>, <<112, 53>>, <<80, 53, 32>>, <<80, 51>>}

BadFiles ==
    {MkFile(m, <<2, 1>>, <<49>>, <<49, 176>>) : m \in BadMagics} \cup {<<>>}

\* Headers that do not parse: a width that is no number; a comment line;
\* a comment after the width and height.
OddFiles ==
    {P5 \o <<NL, 120, 32, 49, NL, 49>>,
     P5 \o <<NL, Hash, 99, NL>> \o Dec(2) \o <<32>> \o Dec(1)
        \o <<NL, 49, NL, 49, 176>>,
     P2 \o <<NL>> \o Dec(2) \o <<32>> \o Dec(1) \o <<NL, Hash, 99, NL, 49>>}

Files ==
    WellFormed \cup WideP4Files \cup DeepFiles \cup HugeFiles
        \cup WrappedFiles \cup BadFiles \cup OddFiles
        \cup {ExampleP2, LongP5File}

Coords == 0..MaxCoord

NoQuery == [x |-> -1, y |-> -1, res |-> [thrown |-> FALSE, val |-> 0]]

(* --------------------------- the state machine ------------------------ *)

\* GraymapImage(): _width(0), _height(0), _max_value(255), _data empty.
Init ==
    /\ _data = <<>>
    /\ _width = 0
    /\ _height = 0
    /\ _max_value = DefaultMax
    /\ heap = "none"
    /\ file = <<>>
    /\ ret = "none"
    /\ src = <<>>
    /\ loads = 0
    /\ query = NoQuery

\* bool LoadImage(filename), on the file's bytes.
LoadImage(f) ==
    /\ ret # "crash"
    /\ loads < MaxLoads
    /\ \E out \in Outcomes(f, Load(f, _data, _width, _height, _max_value),
                           heap) :
          /\ _data' = out.data
          /\ heap' = out.heap
          /\ _width' = out.w
          /\ _height' = out.h
          /\ _max_value' = out.m
          /\ ret' = out.ret
          /\ src' = out.src
    /\ file' = f
    /\ loads' = loads + 1
    /\ query' = NoQuery

\* unsigned char GetPixel(x, y).  Throwing std::out_of_range allocates the
\* exception: on an overwritten heap the process may abort there.
GetPixel(x, y) ==
    /\ ret # "crash"
    /\ \E aborts \in {FALSE} \cup {heap = "overwritten" /\ At(x, y).thrown} :
          /\ query' = IF aborts THEN NoQuery
                      ELSE [x |-> x, y |-> y, res |-> At(x, y)]
          /\ ret' = IF aborts THEN "crash" ELSE ret
    /\ UNCHANGED <<_data, _width, _height, _max_value, heap, file, src, loads>>

NextLoad == \E f \in Files : LoadImage(f)

Next ==
    \/ \E f \in Files : LoadImage(f)
    \/ \E x \in Coords, y \in Coords : GetPixel(x, y)

\* Loads and pixel queries.
Spec == Init /\ [][Next]_vars

\* Loads alone (GetPixel changes nothing of the image).
SpecLoad == Init /\ [][NextLoad]_vars

(* ------------------------------ the claims ---------------------------- *)

\* The four fields a caller can observe.
Image == <<_data, _width, _height, _max_value>>

\* A step that is a LoadImage call.
LoadStep == loads' = loads + 1

\* n = w * h as integers, said without forming the product.
ExactProduct(n, w, h) == IF w = 0 THEN n = 0 ELSE n % w = 0 /\ n \div w = h

\* The non-blank bytes of a text pixel section, and whether blanks
\* separate them.
Tokens(r) == SelectSeq(r, LAMBDA b : ~IsSpace(b))
Separated(r) == \A i \in 1..(Len(r) - 1) : IsSpace(r[i]) \/ IsSpace(r[i + 1])

\* C1: a LoadImage call that returns false leaves width, height, max-value
\* and the pixel buffer exactly as they were before the call.
C1_FailedLoadChangesNothing ==
    [][(LoadStep /\ ret' = "false") => Image' = Image]_vars

\* C2: on a loaded W x H image (W, H > 0, product not overflowing),
\* GetPixel(x, y) throws out-of-range whenever x >= W or y >= H, and
\* otherwise returns the buffer entry at index y*W + x.
C2_GetPixelChecksBothCoordinates ==
    (/\ ret = "true" /\ _width > 0 /\ _height > 0
     /\ ~Overflows(_width, _height) /\ query # NoQuery)
    => IF query.x >= _width \/ query.y >= _height
       THEN query.res.thrown
       ELSE /\ ~query.res.thrown
            /\ query.res.val = _data[query.y * _width + query.x + 1]

\* C3: when the first line of the file is not exactly "P1", "P2", "P4" or
\* "P5", LoadImage returns false and changes none of width, height,
\* max-value and the pixel buffer; an uninitialized image stays
\* uninitialized.
C3_BadMagicRejected ==
    [][(LoadStep /\ FormatBuffer(file') \notin Magics)
         => /\ ret' = "false"
            /\ Image' = Image
            /\ (~IsInitialized => ~IsInitialized')]_vars

\* C4: a valid P5 file of width W and height H loads, the buffer has W*H
\* entries, and GetPixel(x, y) is the (y*W + x)-th raster byte, verbatim,
\* whatever the bytes' values.
C4_P5Verbatim ==
    \A d \in DimsOf(P5), r \in Rasters(P5) :
        (file = MkFile(P5, d, <<50, 53, 53>>, r) /\ Len(r) = d[1] * d[2])
        => /\ ret = "true"
           /\ Len(_data) = d[1] * d[2]
           /\ \A x \in 0..(d[1] - 1), y \in 0..(d[2] - 1) :
                 At(x, y) = [thrown |-> FALSE, val |-> r[y * d[1] + x + 1]]

\* C5: a valid P2 file stores the numeric value of each decimal token:
\* "P2\n2 2\n255\n0 128 255 64\n" gives the buffer [0, 128, 255, 64] with
\* width 2, height 2 and max-value 255.
C5_P2StoresTokenValues ==
    file = ExampleP2
    => /\ ret = "true"
       /\ _data = <<0, 128, 255, 64>>
       /\ _width = 2 /\ _height = 2 /\ _max_value = 255

\* C6: after a valid P1 file (W*H blank-separated tokens "0" or "1", no
\* max-value token) every pixel is 0 or 255, pixel number n is 255 exactly
\* when token number n is "1", and there are as many 255s as "1" tokens.
C6_P1BitsScaled ==
    \A d \in DimsOf(P1), r \in Rasters(P1) :
        (/\ file = MkFile(P1, d, <<>>, r)
         /\ Separated(r) /\ Len(Tokens(r)) = d[1] * d[2]
         /\ \A n \in 1..Len(Tokens(r)) : Tokens(r)[n] \in {48, 49})
        => /\ Len(_data) = d[1] * d[2]
           /\ \A n \in 1..Len(_data) :
                 /\ _data[n] \in {0, 255}
                 /\ _data[n] = 255 <=> Tokens(r)[n] = 49
           /\ Cardinality({n \in 1..Len(_data) : _data[n] = 255})
                = Cardinality({n \in 1..Len(Tokens(r)) : Tokens(r)[n] = 49})

\* C7: after a valid P4 file (width a multiple of 8, no max-value token,
\* one whitespace byte, then the packed raster) pixel (j*8 + k, row) is 255
\* times bit 7-k of raster byte j of that row.
C7_P4BitsUnpacked ==
    \A d \in DimsOf(P4), r \in Rasters(P4) :
        (/\ file = MkFile(P4, d, <<>>, r)
         /\ d[1] % 8 = 0 /\ Len(r) = (d[1] \div 8) * d[2])
        => /\ Len(_data) = d[1] * d[2]
           /\ \A row \in 0..(d[2] - 1), j \in 0..((d[1] \div 8) - 1), k \in 0..7 :
                 At(j * 8 + k, row)
                   = [thrown |-> FALSE,
                      val |-> 255 * Bit(r[row * (d[1] \div 8) + j + 1], 7 - k)]

\* C8: in every state a sequence of LoadImage calls leaves the image in,
\* the buffer length is the exact integer product of width and height.
C8_BufferLengthIsProduct ==
    ret # "crash" => ExactProduct(Len(_data), _width, _height)

\* C9: after a load that returned true, every buffer entry for which the
\* input held no value reads as 0, whatever earlier loads left.
C9_StarvedEntriesAreZero ==
    ret = "true"
    => \A n \in 1..Len(_data) : ~src[n].ok => _data[n] = 0

\* Bytes per row of a packed raster.
RowBytes(w) == (w + 7) \div 8

\* The stream as the P4 decode loop finds it: after the header fields and
\* the whitespace that follows them.
RasterStream(f) == SkipSpaces(Header(f, 0, 0, 0).st)

\* Byte number n (from 0) that the decode loop reads, or 0 when the stream
\* has no such byte.
RasterByte(f, n) ==
    LET st == RasterStream(f)
    IN IF st.good /\ st.pos + n <= Len(st.buf) THEN st.buf[st.pos + n] ELSE 0

\* A P4 file of more than one row, of a width that is no multiple of 8, was
\* decoded and every read of the loop delivered a byte.
P4OddWidthDecoded ==
    /\ ret = "true" /\ FormatBuffer(file) = P4
    /\ _width % 8 # 0 /\ _height > 1 /\ ~Overflows(_width, _height)
    /\ \A n \in 1..Len(_data) : src[n].ok

\* C10, as claimed: when the width is no multiple of 8, some pixel (x, r)
\* of a row r > 0 gets its final value from a byte other than byte number
\* r*ceil(W/8) + floor(x/8) of the raster, or from a bit other than bit
\* 7 - (x mod 8) of it.
C10_RowsReadFromWrongByte ==
    P4OddWidthDecoded
    => \E r \in 1..(_height - 1), x \in 0..(_width - 1) :
          \/ src[r * _width + x + 1].n # r * RowBytes(_width) + (x \div 8)
          \/ src[r * _width + x + 1].k # 7 - (x % 8)

\* C10, amended: the decode loop reads ceil(W/8) bytes per row, so every
\* row starts at a byte boundary for every width: when the product of
\* width and height fits unsigned int, the final value of pixel
\* (x, r) is 255 times bit 7 - (x mod 8) of byte number
\* r*ceil(W/8) + floor(x/8) that the loop reads (0 when the stream has run
\* out).
C10_RowsAreByteAligned ==
    (ret = "true" /\ FormatBuffer(file) = P4 /\ ~Overflows(_width, _height))
    => \A r \in 0..(_height - 1), x \in 0..(_width - 1) :
          LET s == src[r * _width + x + 1]
              n == r * RowBytes(_width) + (x \div 8)
          IN /\ s.n = n
             /\ s.k = 7 - (x % 8)
             /\ _data[r * _width + x + 1]
                  = 255 * Bit(RasterByte(file, n), 7 - (x % 8))

\* C10's case: a complete 3 x 2 raster was decoded and a pixel of the
\* second row is set.
C10_Witness ==
    /\ P4OddWidthDecoded
    /\ \E x \in 0..(_width - 1) : _data[_width + x + 1] = 255

====
